---- MODULE Spec2Model ----
(***************************************************************************)
(* Circuit construction of qutilities' QFT arithmetic: the Draper adder    *)
(* QFTAdder (arithmetic/adders/qft_adder.py) and the repeated-addition     *)
(* multiplier QFTMultiplier (arithmetic/multipliers/qft_multiplier.py).    *)
(*                                                                         *)
(* A register is the value [name, size] (qiskit compares registers by      *)
(* name and size).  A circuit is a heap cell [regs, data]: the registers   *)
(* handed to QuantumCircuit(...) and the list of appended instructions.    *)
(* Objects hold the index of their circuit in the heap, so that a build    *)
(* that kept appending to an old circuit would be visible.                 *)
(* An angle is the pair [num, den] standing for num * pi / den.            *)
(***************************************************************************)
EXTENDS Integers, Sequences, FiniteSets, TLC

VARIABLES adder, mult, heap, returned, last

vars == <<adder, mult, heap, returned, last>>

\* ---- bounds of the model ------------------------------------------------
MaxRegSize == 3
MaxQubits == 2
MaxBuilds == 3

\* ---- values ---------------------------------------------------------------
None == [kind |-> "None"]

ExtNames == {"r0", "r1", "r2"}

QuantumRegister(size, name) == [name |-> name, size |-> size]

ExtRegs == {QuantumRegister(s, nm) : s \in 0..MaxRegSize, nm \in ExtNames}

\* a register's name identifies it: the registers a caller supplies together
\* are equal whenever they bear the same name
NamesIdentify(regs) ==
    \A a, b \in regs \ {None} : a.name = b.name => a = b

Qubit(reg, i) == [reg |-> reg, idx |-> i]

\* list(reg): the qubits of a register in index order
RegQubits(reg) == [i \in 1..reg.size |-> Qubit(reg, i - 1)]

RECURSIVE Pow2(_)
Pow2(n) == IF n <= 0 THEN 1 ELSE 2 * Pow2(n - 1)

ZeroAngle == [num |-> 0, den |-> 1]

Instr(name, angle, qubits, definition) ==
    [name |-> name, angle |-> angle, qubits |-> qubits, definition |-> definition]

\* QuantumCircuit(*registers): a fresh, empty circuit over the registers given
QuantumCircuit(registers) == [regs |-> registers, data |-> <<>>]

RECURSIVE FlattenQubits(_)
FlattenQubits(registers) ==
    IF registers = <<>> THEN <<>>
    ELSE RegQubits(Head(registers)) \o FlattenQubits(Tail(registers))

CircAppend(h, ref, instr) == [h EXCEPT ![ref].data = Append(@, instr)]

\* circuit.barrier(): a barrier over all qubits of the circuit
CircBarrier(h, ref) ==
    CircAppend(h, ref, Instr("barrier", ZeroAngle, FlattenQubits(h[ref].regs), <<>>))

\* QFTGate(num_qubits, inverse).build(): an opaque gate of that width
QFTGate(num_qubits, inverse) ==
    IF num_qubits < 1 THEN [exc |-> "ValueError"]
    ELSE [exc |-> "none", name |-> IF inverse THEN "IQFT" ELSE "QFT",
          num_qubits |-> num_qubits]

Arg(kw, key, default) == IF key \in DOMAIN kw THEN kw[key] ELSE default

\* ---- QFTAdder -------------------------------------------------------------
QFTAdderParams ==
    {"num_qubits", "subtract", "skip_qft", "A", "B", "label", "debug", "insert_barrier"}

Adder_sizes_rejected_equal_accepted(A, B) == A.size < B.size

\* "A.size != B.size + 1": the sizes the constructor raises on
Adder_sizes_rejected(A, B) == A.size # B.size + 1

\* QFTAdder(**kw): the new object, or the exception raised
QFTAdder_init(kw) ==
    IF ~(DOMAIN kw \subseteq QFTAdderParams) THEN [exc |-> "TypeError"]
    ELSE LET A == Arg(kw, "A", None)
             B == Arg(kw, "B", None)
             num_qubits == Arg(kw, "num_qubits", 0)
             flags == [subtract |-> Arg(kw, "subtract", FALSE),
                       skip_qft |-> Arg(kw, "skip_qft", FALSE),
                       insert_barrier |-> Arg(kw, "insert_barrier", FALSE)]
         IN IF A # None /\ B # None
            THEN IF Adder_sizes_rejected(A, B) THEN [exc |-> "ValueError"]
                 ELSE [exc |-> "none",
                       self |-> [A_reg |-> A, B_reg |-> B, num_qubits |-> B.size,
                                 owns_registers |-> FALSE, subtract |-> flags.subtract,
                                 skip_qft |-> flags.skip_qft,
                                 insert_barrier |-> flags.insert_barrier,
                                 adder_circuit |-> 0]]
            ELSE IF A # None \/ B # None THEN [exc |-> "ValueError"]
            ELSE [exc |-> "none",
                  self |-> [A_reg |-> QuantumRegister(num_qubits + 1, "A"),
                            B_reg |-> QuantumRegister(num_qubits, "B"),
                            num_qubits |-> num_qubits,
                            owns_registers |-> TRUE, subtract |-> flags.subtract,
                            skip_qft |-> flags.skip_qft,
                            insert_barrier |-> flags.insert_barrier,
                            adder_circuit |-> 0]]

\* the loop "for register in [...]: if register not in registers: append"
RECURSIVE Dedup(_, _)
Dedup(todo, registers) ==
    IF todo = <<>> THEN registers
    ELSE Dedup(Tail(todo),
               IF \E k \in 1..Len(registers) : registers[k] = Head(todo)
               THEN registers ELSE Append(registers, Head(todo)))

Adder_create_circuit_kept(self, h) ==
    IF self.adder_circuit # 0 THEN [self |-> self, heap |-> h]
    ELSE [self |-> [self EXCEPT !.adder_circuit = Len(h) + 1],
          heap |-> Append(h, QuantumCircuit(<<self.A_reg, self.B_reg>>))]

\* _create_circuit: self.adder_circuit is bound to a new circuit
Adder_create_circuit(self, h) ==
    LET registers == IF self.owns_registers THEN <<self.A_reg, self.B_reg>>
                     ELSE Dedup(<<self.A_reg, self.B_reg>>, <<>>)
    IN [self |-> [self EXCEPT !.adder_circuit = Len(h) + 1],
        heap |-> Append(h, QuantumCircuit(registers))]

Adder_insert_barrier(self, h) ==
    IF self.insert_barrier THEN CircBarrier(h, self.adder_circuit) ELSE h

Adder_apply_qft(self, h) ==
    IF self.skip_qft THEN h
    ELSE LET qft_gate == QFTGate(self.A_reg.size, FALSE)
         IN Adder_insert_barrier(self,
              CircAppend(h, self.adder_circuit,
                         Instr(qft_gate.name, ZeroAngle, RegQubits(self.A_reg), <<>>)))

Adder_apply_iqft(self, h) ==
    IF self.skip_qft THEN h
    ELSE LET iqft_gate == QFTGate(self.A_reg.size, TRUE)
         IN CircAppend(h, self.adder_circuit,
                       Instr(iqft_gate.name, ZeroAngle, RegQubits(self.A_reg), <<>>))

Adder_encode_angle_halved(self, distance) ==
    LET angle == [num |-> 1, den |-> Pow2(distance + 1)]
    IN IF self.subtract THEN [angle EXCEPT !.num = -1] ELSE angle

\* _encode_angle: pi / 2**distance, negated for subtraction
Adder_encode_angle(self, distance) ==
    LET angle == [num |-> 1, den |-> Pow2(distance)]
    IN IF self.subtract THEN [angle EXCEPT !.num = -1] ELSE angle

Adder_apply_phase_kick(self, h, control_idx, target_idx) ==
    LET distance == target_idx - control_idx
        angle == Adder_encode_angle(self, distance)
    IN CircAppend(h, self.adder_circuit,
                  Instr("cp", angle,
                        <<Qubit(self.B_reg, control_idx), Qubit(self.A_reg, target_idx)>>,
                        <<>>))

RECURSIVE Adder_kick_targets_past_end(_, _, _, _)
Adder_kick_targets_past_end(self, h, control_qubit, target_qubit) ==
    IF target_qubit > self.A_reg.size THEN h
    ELSE Adder_kick_targets_past_end(self,
             Adder_apply_phase_kick(self, h, control_qubit, target_qubit),
             control_qubit, target_qubit + 1)

\* inner loop: for target_qubit in range(control_qubit, A_reg.size)
RECURSIVE Adder_kick_targets(_, _, _, _)
Adder_kick_targets(self, h, control_qubit, target_qubit) ==
    IF target_qubit >= self.A_reg.size THEN h
    ELSE Adder_kick_targets(self,
             Adder_apply_phase_kick(self, h, control_qubit, target_qubit),
             control_qubit, target_qubit + 1)

RECURSIVE Adder_kick_controls_skip_own(_, _, _)
Adder_kick_controls_skip_own(self, h, control_qubit) ==
    IF control_qubit >= self.B_reg.size THEN h
    ELSE Adder_kick_controls_skip_own(self,
             Adder_insert_barrier(self,
                 Adder_kick_targets(self, h, control_qubit, control_qubit + 1)),
             control_qubit + 1)

\* outer loop: for control_qubit in range(B_reg.size)
RECURSIVE Adder_kick_controls(_, _, _)
Adder_kick_controls(self, h, control_qubit) ==
    IF control_qubit >= self.B_reg.size THEN h
    ELSE Adder_kick_controls(self,
             Adder_insert_barrier(self,
                 Adder_kick_targets(self, h, control_qubit, control_qubit)),
             control_qubit + 1)

Adder_apply_phase_kickbacks(self, h) == Adder_kick_controls(self, h, 0)

\* build() after _create_circuit: the transform, the phase gates, the
\* inverse transform, appended to the circuit just created
Adder_build_on(c) ==
    [self |-> c.self,
     heap |-> Adder_apply_iqft(c.self,
                Adder_apply_phase_kickbacks(c.self,
                  Adder_apply_qft(c.self, c.heap)))]

\* build(): the object and heap after the call; the circuit returned is
\* heap[self.adder_circuit]
Adder_build(self, h) == Adder_build_on(Adder_create_circuit(self, h))

\* ---- QFTMultiplier --------------------------------------------------------
Mult_target_rejected_at_required(target, required_size) == target.size <= required_size

\* "len(target) < required_size": the accumulators the constructor raises on
Mult_target_rejected(target, required_size) == target.size < required_size

\* QFTMultiplier(multiplicand, multiplier, target, ...): the new object, or
\* the exception raised
QFTMultiplier_init(multiplicand, multiplier, target, inverse, skip_qft, insert_barrier) ==
    LET required_size == multiplicand.size + multiplier.size
        self == [M_reg |-> multiplicand, N_reg |-> multiplier, Y_reg |-> None,
                 inverse |-> inverse, skip_qft |-> skip_qft,
                 insert_barrier |-> insert_barrier, multiplier_circuit |-> 0]
    IN IF target = None
       THEN [exc |-> "none",
             self |-> [self EXCEPT !.Y_reg = QuantumRegister(required_size, "Y")]]
       ELSE IF Mult_target_rejected(target, required_size) THEN [exc |-> "ValueError"]
       ELSE [exc |-> "none", self |-> [self EXCEPT !.Y_reg = target]]

\* _create_circuit: QuantumCircuit(Y_reg, M_reg, N_reg), the three registers
\* as they are, in this order
Mult_create_circuit(self, h) ==
    [self |-> [self EXCEPT !.multiplier_circuit = Len(h) + 1],
     heap |-> Append(h, QuantumCircuit(<<self.Y_reg, self.M_reg, self.N_reg>>))]

Mult_insert_barrier(self, h) ==
    IF self.insert_barrier THEN CircBarrier(h, self.multiplier_circuit) ELSE h

\* A step of build() takes and returns [exc, heap]: the exception raised so
\* far, if any, and the heap; a step after a raise does nothing.
Mult_apply_qft(self, s) ==
    IF s.exc # "none" \/ self.skip_qft THEN s
    ELSE IF QFTGate(self.Y_reg.size, FALSE).exc # "none"
    THEN [exc |-> QFTGate(self.Y_reg.size, FALSE).exc, heap |-> s.heap]
    ELSE [exc |-> "none",
          heap |-> Mult_insert_barrier(self,
                     CircAppend(s.heap, self.multiplier_circuit,
                                Instr(QFTGate(self.Y_reg.size, FALSE).name, ZeroAngle,
                                      RegQubits(self.Y_reg), <<>>)))]

Mult_apply_iqft(self, s) ==
    IF s.exc # "none" \/ self.skip_qft THEN s
    ELSE IF QFTGate(self.Y_reg.size, TRUE).exc # "none"
    THEN [exc |-> QFTGate(self.Y_reg.size, TRUE).exc, heap |-> s.heap]
    ELSE [exc |-> "none",
          heap |-> CircAppend(s.heap, self.multiplier_circuit,
                              Instr(QFTGate(self.Y_reg.size, TRUE).name, ZeroAngle,
                                    RegQubits(self.Y_reg), <<>>))]

\* the keyword arguments _create_C_ADD passes to QFTAdder
Mult_C_ADD_kwargs(self) ==
    [target |-> self.Y_reg, operand |-> self.M_reg,
     inverse |-> self.inverse, skip_qft |-> TRUE]

\* .to_gate().control() of the circuit the adder built
Mult_controlled_gate(built) ==
    [exc |-> "none", heap |-> built.heap,
     gate |-> [name |-> "c_add", num_ctrl_qubits |-> 1,
               regs |-> built.heap[built.self.adder_circuit].regs,
               definition |-> built.heap[built.self.adder_circuit].data]]

\* .build() on what QFTAdder(...) gave, unless it raised
Mult_C_ADD_from(made, h) ==
    IF made.exc # "none" THEN [exc |-> made.exc, heap |-> h]
    ELSE Mult_controlled_gate(Adder_build(made.self, h))

\* _create_C_ADD: QFTAdder(...).build().to_gate().control()
Mult_create_C_ADD(self, h) == Mult_C_ADD_from(QFTAdder_init(Mult_C_ADD_kwargs(self)), h)

\* The loops of _apply_C_ADD yield the list of appends they make: the bit
\* position i for an append of the controlled adder under control N_reg[i],
\* BarrierSlot for a barrier.
BarrierSlot == -1

\* inner loop: for j in range(2**i)
Mult_repeat_C_ADD(i) == [j \in 1..Pow2(i) |-> i]

\* outer loop: for i in range(N_reg.size), the inner loop, then _insert_barrier
RECURSIVE Mult_each_N_bit(_, _)
Mult_each_N_bit(self, i) ==
    IF i >= self.N_reg.size THEN <<>>
    ELSE Mult_repeat_C_ADD(i)
           \o (IF self.insert_barrier THEN <<BarrierSlot>> ELSE <<>>)
           \o Mult_each_N_bit(self, i + 1)

\* append(c_add_gate, [N_reg[i]] + list(Y_reg) + list(M_reg))
Mult_C_ADD_application(self, c_add_gate, i) ==
    Instr(c_add_gate.name, ZeroAngle,
          <<Qubit(self.N_reg, i)>> \o RegQubits(self.Y_reg) \o RegQubits(self.M_reg),
          c_add_gate.definition)

\* the appends of _apply_C_ADD, given what _create_C_ADD returned or raised
Mult_append_C_ADDs(self, c, slots) ==
    IF c.exc # "none" THEN [exc |-> c.exc, heap |-> c.heap]
    ELSE [exc |-> "none",
          heap |-> [c.heap EXCEPT ![self.multiplier_circuit].data =
                      @ \o [k \in DOMAIN slots |->
                              IF slots[k] = BarrierSlot
                              THEN Instr("barrier", ZeroAngle,
                                         FlattenQubits(c.heap[self.multiplier_circuit].regs),
                                         <<>>)
                              ELSE Mult_C_ADD_application(self, c.gate, slots[k])]]]

Mult_apply_C_ADD(self, s) ==
    IF s.exc # "none" THEN s
    ELSE Mult_append_C_ADDs(self, Mult_create_C_ADD(self, s.heap), Mult_each_N_bit(self, 0))

\* build() after _create_circuit
Mult_build_on(c) ==
    Mult_apply_iqft(c.self,
      Mult_apply_C_ADD(c.self,
        Mult_apply_qft(c.self, [exc |-> "none", heap |-> c.heap])))

\* build(): [exc, heap, ref]; ref is the circuit self.multiplier_circuit is
\* bound to after the call; when exc is "none" that circuit is returned,
\* otherwise the call raised exc
Mult_build_result(s, h) == [exc |-> s.exc, heap |-> s.heap, ref |-> Len(h) + 1]

Mult_build(self, h) == Mult_build_result(Mult_build_on(Mult_create_circuit(self, h)), h)

\* ---- the state machine ----------------------------------------------------
\* A run follows one component instance, an adder or a multiplier, from its
\* construction (the first call of the run) through its build() calls; a
\* construction that raised leaves no object.
Init ==
    /\ adder = None
    /\ mult = None
    /\ heap = <<>>
    /\ returned = <<>>
    /\ last = [op |-> "none", exc |-> "none"]

\* adder = QFTAdder(num_qubits, subtract, skip_qft, A, B, insert_barrier)
NewAdder ==
    /\ last.op = "none"
    /\ \E A \in ExtRegs \cup {None}, B \in ExtRegs \cup {None},
          num_qubits \in 0..MaxQubits, subtract \in BOOLEAN,
          skip_qft \in BOOLEAN, insert_barrier \in BOOLEAN :
         NamesIdentify({A, B}) /\
         LET kw == [A |-> A, B |-> B, num_qubits |-> num_qubits,
                    subtract |-> subtract, skip_qft |-> skip_qft,
                    insert_barrier |-> insert_barrier]
             made == QFTAdder_init(kw)
         IN /\ adder' = IF made.exc = "none" THEN made.self ELSE None
            /\ last' = [op |-> "QFTAdder", exc |-> made.exc, A |-> A, B |-> B]
    /\ UNCHANGED <<mult, heap, returned>>

\* circuit = adder.build()
AdderBuilt_step(built) ==
    /\ adder' = built.self
    /\ heap' = built.heap
    /\ returned' = Append(returned, built.self.adder_circuit)

AdderBuild ==
    /\ adder # None
    /\ Len(heap) < MaxBuilds
    /\ AdderBuilt_step(Adder_build(adder, heap))
    /\ last' = [op |-> "QFTAdder.build", exc |-> "none"]
    /\ UNCHANGED mult

\* mult = QFTMultiplier(multiplicand, multiplier, target, inverse, skip_qft, insert_barrier)
NewMultiplier ==
    /\ last.op = "none"
    /\ \E multiplicand \in ExtRegs, multiplier \in ExtRegs,
          target \in ExtRegs \cup {None}, inverse \in BOOLEAN,
          skip_qft \in BOOLEAN, insert_barrier \in BOOLEAN :
         NamesIdentify({multiplicand, multiplier, target}) /\
         LET made == QFTMultiplier_init(multiplicand, multiplier, target,
                                        inverse, skip_qft, insert_barrier)
         IN /\ mult' = IF made.exc = "none" THEN made.self ELSE None
            /\ last' = [op |-> "QFTMultiplier", exc |-> made.exc,
                        multiplicand |-> multiplicand, multiplier |-> multiplier,
                        target |-> target]
    /\ UNCHANGED <<adder, heap, returned>>

\* circuit = mult.build()
MultiplierBuilt_step(built) ==
    /\ mult' = [mult EXCEPT !.multiplier_circuit = built.ref]
    /\ heap' = built.heap
    /\ returned' = IF built.exc = "none" THEN Append(returned, built.ref) ELSE returned
    /\ last' = [op |-> "QFTMultiplier.build", exc |-> built.exc]

MultiplierBuild ==
    /\ mult # None
    /\ Len(heap) < MaxBuilds
    /\ MultiplierBuilt_step(Mult_build(mult, heap))
    /\ UNCHANGED adder

Next == NewAdder \/ AdderBuild \/ NewMultiplier \/ MultiplierBuild

Spec == Init /\ [][Next]_vars

\* ---- definitions used to state the claims --------------------------------------
\* The Fourier-basis phase model.
\* Phases are counted in units of 1/2^p of a full turn, modulo 2^p, for a
\* target register of p qubits.  Qubit t of a register holding the value v
\* carries the phase v / 2^(t+1) of a turn.
FourierPhase(v, t, p) == (v * Pow2(p - 1 - t)) % Pow2(p)

Bit(v, i) == (v \div Pow2(i)) % 2

\* the angle num * pi / den in units of 1/2^p of a turn
AngleUnits(angle, p) == angle.num * (Pow2(p) \div (2 * angle.den))

\* the phase the cp gates of data put on qubit t of the register tgt when
\* the register ctl holds the value a
RECURSIVE KickPhase(_, _, _, _, _, _)
KickPhase(data, ctl, tgt, a, t, p) ==
    IF data = <<>> THEN 0
    ELSE LET g == Head(data)
             here == IF /\ g.name = "cp"
                        /\ g.qubits[2] = Qubit(tgt, t)
                        /\ g.qubits[1].reg = ctl
                        /\ Bit(a, g.qubits[1].idx) = 1
                     THEN AngleUnits(g.angle, p) ELSE 0
         IN here + KickPhase(Tail(data), ctl, tgt, a, t, p)

AdderBuilt == adder # None /\ adder.adder_circuit # 0

AdderCircuit == heap[adder.adder_circuit]

Sign(subtract) == IF subtract THEN -1 ELSE 1

\* a multiplier over two different registers M and N of at least one qubit
\* each was built (or its build() raised)
MultBuildTried ==
    /\ last.op = "QFTMultiplier.build"
    /\ mult.M_reg.size >= 1 /\ mult.N_reg.size >= 1
    /\ mult.M_reg # mult.N_reg

\* ---- claims -----------------------------------------------------------------

\* C1: for every adder the constructor accepted, with target width p and
\* operand width q, and all x in [0, 2^p), a in [0, 2^q): the circuit build()
\* returned changes no qubit of the operand register (only the transforms on
\* the target and controlled-phase gates controlled by the operand occur),
\* every angle is a whole number of phase units, and the phase gates take the
\* Fourier phases of x on every target qubit t to those of (x + a) mod 2^p,
\* or of (x - a) mod 2^p in subtract mode.
C1_AdderCorrect ==
    AdderBuilt =>
      LET p == adder.A_reg.size
          q == adder.B_reg.size
          data == AdderCircuit.data
      IN /\ \A k \in DOMAIN data :
              /\ data[k].name \in {"cp", "QFT", "IQFT", "barrier"}
              /\ data[k].name \in {"QFT", "IQFT"} =>
                     \A i \in DOMAIN data[k].qubits : data[k].qubits[i].reg = adder.A_reg
              /\ data[k].name = "cp" =>
                     /\ data[k].qubits[1].reg = adder.B_reg
                     /\ data[k].qubits[2].reg = adder.A_reg
                     /\ Pow2(p) % (2 * data[k].angle.den) = 0
         /\ \A x \in 0..(Pow2(p) - 1), a \in 0..(Pow2(q) - 1), t \in 0..(p - 1) :
              (FourierPhase(x, t, p)
                 + KickPhase(data, adder.B_reg, adder.A_reg, a, t, p)) % Pow2(p)
              = FourierPhase((x + Sign(adder.subtract) * a) % Pow2(p), t, p)

\* C1 witness: an adder over a 3-qubit target and a 2-qubit operand was built
\* in add mode, and for x = 5, a = 3 its phase gates leave the phases of 0.
C1_Witness ==
    /\ AdderBuilt
    /\ adder.A_reg.size = 3 /\ adder.B_reg.size = 2 /\ ~adder.subtract
    /\ \A t \in 0..2 :
         (FourierPhase(5, t, 3)
            + KickPhase(AdderCircuit.data, adder.B_reg, adder.A_reg, 3, t, 3)) % 8
         = FourierPhase(0, t, 3)

\* C2 (as claimed): every construction of an adder from two supplied registers
\* with target size p > operand size q is accepted.
C2_AcceptsEveryWiderTarget ==
    (/\ last.op = "QFTAdder"
     /\ last.A # None /\ last.B # None
     /\ last.A.size > last.B.size)
    => last.exc = "none"

\* C3: a construction given exactly one of the two registers, or both with
\* target size p <= operand size q, raises the invalid-configuration error
\* (ValueError), leaves no adder object, and no circuit exists.
C3_RejectedConstruction ==
    (/\ last.op = "QFTAdder"
     /\ \/ (last.A = None) # (last.B = None)
        \/ (last.A # None /\ last.B # None /\ last.A.size <= last.B.size))
    => /\ last.exc = "ValueError"
       /\ adder = None
       /\ heap = <<>> /\ returned = <<>>

\* C3 witness: a construction from two registers of size 3 each was rejected.
C3_Witness ==
    /\ last.op = "QFTAdder"
    /\ last.A # None /\ last.B # None
    /\ last.A.size = 3 /\ last.B.size = 3
    /\ last.exc = "ValueError"
    /\ adder = None

\* C4: right after QFTMultiplier(M, N, target) with sizes m and n: with no
\* target the construction succeeds and allocates an accumulator of size
\* exactly m + n; with a target it succeeds iff size(target) >= m + n, then
\* uses the target as given, and otherwise raises ValueError and leaves no
\* object.
C4_AccumulatorSizing ==
    last.op = "QFTMultiplier" =>
      LET required == last.multiplicand.size + last.multiplier.size
      IN IF last.target = None
         THEN /\ last.exc = "none"
              /\ mult # None
              /\ mult.Y_reg.size = required
              /\ mult.Y_reg \notin ExtRegs
         ELSE /\ (last.exc = "none") <=> (last.target.size >= required)
              /\ last.exc = "none" => (mult # None /\ mult.Y_reg = last.target)
              /\ last.exc # "none" => (last.exc = "ValueError" /\ mult = None)

\* C4 witness: a supplied accumulator of size exactly m + n (m, n >= 1) was
\* accepted and is the multiplier's accumulator.
C4_Witness ==
    /\ last.op = "QFTMultiplier"
    /\ last.multiplicand.size >= 1 /\ last.multiplier.size >= 1
    /\ last.target # None
    /\ last.target.size = last.multiplicand.size + last.multiplier.size
    /\ last.exc = "none"
    /\ mult # None /\ mult.Y_reg = last.target

\* C5 (as claimed, for two different registers M and N of at least one qubit
\* each): build() on a constructed multiplier never raises.
C5_BuildNeverFails ==
    MultBuildTried => last.exc = "none"

\* the phase the controlled adders of a multiplier circuit put on qubit t of
\* the accumulator Y when M holds Mv and N holds Nv: an application counts
\* when its control qubit, a bit of N, is set
RECURSIVE MultKickPhase(_, _, _, _, _, _)
MultKickPhase(data, self, Mv, Nv, t, s) ==
    IF data = <<>> THEN 0
    ELSE LET g == Head(data)
             here == IF /\ g.name = "c_add"
                        /\ g.qubits[1].reg = self.N_reg
                        /\ Bit(Nv, g.qubits[1].idx) = 1
                     THEN KickPhase(g.definition, self.M_reg, self.Y_reg, Mv, t, s)
                     ELSE 0
         IN here + MultKickPhase(Tail(data), self, Mv, Nv, t, s)

IsGate(g) == g.name # "barrier"

\* the gates of a circuit, barriers (markers, not gates) left out
Gates(data) == SelectSeq(data, IsGate)

\* C6 (as claimed, for different registers M and N with m, n >= 1): a build()
\* of a multiplier returns a circuit whose
\* controlled adders take the Fourier phases of the accumulator value y, on
\* every accumulator qubit, to those of (y + M*N) mod 2^s, or of
\* (y - M*N) mod 2^s when inverse is set, for all values M, N and y.
C6_MultiplierCorrect ==
    MultBuildTried =>
      /\ last.exc = "none"
      /\ LET s == mult.Y_reg.size
             data == heap[mult.multiplier_circuit].data
         IN \A Mv \in 0..(Pow2(mult.M_reg.size) - 1),
               Nv \in 0..(Pow2(mult.N_reg.size) - 1),
               y \in 0..(Pow2(s) - 1), t \in 0..(s - 1) :
              (FourierPhase(y, t, s) + MultKickPhase(data, mult, Mv, Nv, t, s)) % Pow2(s)
              = FourierPhase((y + Sign(mult.inverse) * Mv * Nv) % Pow2(s), t, s)

\* C7 (as claimed, for different registers M and N with m, n >= 1): a build()
\* of a multiplier over an n-qubit multiplier register returns a circuit whose gates are the forward transform (unless
\* skip_qft), then 2^n - 1 applications of one controlled adder gate, the
\* k-th of them controlled by N[i] for the i with 2^i <= k < 2^(i+1), then
\* the inverse transform (unless skip_qft).
C7_RepetitionSchedule ==
    MultBuildTried =>
      /\ last.exc = "none"
      /\ LET G == Gates(heap[mult.multiplier_circuit].data)
             off == IF mult.skip_qft THEN 0 ELSE 1
             total == Pow2(mult.N_reg.size) - 1
         IN /\ Len(G) = total + 2 * off
            /\ ~mult.skip_qft => (G[1].name = "QFT" /\ G[Len(G)].name = "IQFT")
            /\ \A k \in 1..total :
                 /\ G[off + k].name = "c_add"
                 /\ G[off + k].definition = G[off + 1].definition
                 /\ \E i \in 0..(mult.N_reg.size - 1) :
                      /\ Pow2(i) <= k /\ k < Pow2(i + 1)
                      /\ G[off + k].qubits[1] = Qubit(mult.N_reg, i)

\* C8: a build() step leaves every circuit that existed before it as it was,
\* binds the component to a circuit that did not exist before, and that
\* circuit has the registers and the instruction list of the circuit of the
\* previous build(); so every circuit an adder's build() returned equals the
\* first one.  (No build() of a multiplier returns a circuit; the circuit it
\* leaves behind is regenerated in the same way.)
C8_BuildRegenerates ==
    [][/\ \A k \in DOMAIN heap : k \in DOMAIN heap' /\ heap'[k] = heap[k]
       /\ last'.op = "QFTAdder.build" =>
            /\ adder'.adder_circuit \in DOMAIN heap' \ DOMAIN heap
            /\ adder.adder_circuit # 0 =>
                 heap'[adder'.adder_circuit] = heap[adder.adder_circuit]
            /\ returned' = Append(returned, adder'.adder_circuit)
            /\ \A i \in DOMAIN returned' : heap'[returned'[i]] = heap'[returned'[1]]
       /\ last'.op = "QFTMultiplier.build" =>
            /\ mult'.multiplier_circuit \in DOMAIN heap' \ DOMAIN heap
            /\ mult.multiplier_circuit # 0 =>
                 heap'[mult'.multiplier_circuit] = heap[mult.multiplier_circuit]
      ]_vars

\* C8 witness: build() of an adder with a 2-qubit operand has returned twice,
\* two different circuits holding gates.
C8_Witness ==
    /\ adder # None /\ adder.B_reg.size = 2
    /\ Len(returned) >= 2
    /\ returned[1] # returned[2]
    /\ heap[returned[1]].data # <<>>
    /\ heap[returned[2]].data # <<>>

\* C9: the gates of the circuit an adder's build() returned are, in this
\* order: the forward transform on the target register (unless skip_qft);
\* one controlled-phase gate for every operand bit c and target bit t with
\* c <= t < p, and no other, ordered by c and within c by t, with control
\* A[c], target X[t] and angle pi/2^(t-c), negated in subtract mode; the
\* inverse transform on the target register (unless skip_qft).
C9_AdderGateOrder ==
    AdderBuilt =>
      LET p == adder.A_reg.size
          q == adder.B_reg.size
          G == Gates(AdderCircuit.data)
          off == IF adder.skip_qft THEN 0 ELSE 1
          ncp == Len(G) - 2 * off
          ctl(k) == G[off + k].qubits[1]
          tgt(k) == G[off + k].qubits[2]
      IN /\ ncp >= 0
         /\ ~adder.skip_qft =>
              /\ G[1].name = "QFT" /\ G[1].qubits = RegQubits(adder.A_reg)
              /\ G[Len(G)].name = "IQFT" /\ G[Len(G)].qubits = RegQubits(adder.A_reg)
         /\ \A k \in 1..ncp :
              /\ G[off + k].name = "cp"
              /\ ctl(k).reg = adder.B_reg /\ ctl(k).idx \in 0..(q - 1)
              /\ tgt(k).reg = adder.A_reg /\ tgt(k).idx \in ctl(k).idx..(p - 1)
              /\ G[off + k].angle = [num |-> Sign(adder.subtract),
                                     den |-> Pow2(tgt(k).idx - ctl(k).idx)]
         /\ \A c \in 0..(q - 1) : \A t \in c..(p - 1) :
              Cardinality({k \in 1..ncp : ctl(k).idx = c /\ tgt(k).idx = t}) = 1
         /\ \A k1, k2 \in 1..ncp :
              k1 < k2 => \/ ctl(k1).idx < ctl(k2).idx
                         \/ (ctl(k1).idx = ctl(k2).idx /\ tgt(k1).idx < tgt(k2).idx)

\* C9 witness: a subtracting adder over a 3-qubit target and a 2-qubit
\* operand was built with the transforms, and its fourth gate is the phase
\* gate from A[0] to X[2] with angle -pi/4.
C9_Witness ==
    /\ AdderBuilt
    /\ adder.A_reg.size = 3 /\ adder.B_reg.size = 2
    /\ adder.subtract /\ ~adder.skip_qft
    /\ Len(Gates(AdderCircuit.data)) = 7
    /\ Gates(AdderCircuit.data)[4] =
         Instr("cp", [num |-> -1, den |-> 4],
               <<Qubit(adder.B_reg, 0), Qubit(adder.A_reg, 2)>>, <<>>)

\* C10 (as claimed): every circuit a component creates declares each register
\* once: no register occurs twice among the registers the circuit is declared
\* over.
C10_RegistersDeclaredOnce ==
    \A k \in DOMAIN heap :
      \A i, j \in DOMAIN heap[k].regs :
        i # j => heap[k].regs[i] # heap[k].regs[j]

\* the qubits of the registers a circuit is declared over
DeclaredQubits(circ) ==
    UNION {{Qubit(circ.regs[r], i) : i \in 0..(circ.regs[r].size - 1)} :
             r \in DOMAIN circ.regs}

Distinct(seq) == \A i, j \in DOMAIN seq : i # j => seq[i] # seq[j]

\* C11: in every circuit a component has created, every instruction refers
\* only to qubits of registers the circuit is declared over, at indices
\* within the register, and every gate is given distinct qubits of its arity:
\* a controlled-phase gate of the adder the two qubits B[c], c < size(B), and
\* A[t], t < size(A); a transform all qubits of the target register, in
\* order; a controlled-adder application of the multiplier the
\* 1 + size(Y) + size(M) qubits [N[i], Y[0..], M[0..]] for a bit i of N.
C11_GatesOnDeclaredQubits ==
    \A k \in DOMAIN heap :
      \A n \in DOMAIN heap[k].data :
        LET g == heap[k].data[n]
        IN /\ \A x \in DOMAIN g.qubits :
                /\ g.qubits[x] \in DeclaredQubits(heap[k])
                /\ g.qubits[x].idx \in 0..(g.qubits[x].reg.size - 1)
           /\ IsGate(g) => Distinct(g.qubits)
           /\ g.name = "cp" =>
                /\ adder # None
                /\ Len(g.qubits) = 2
                /\ g.qubits[1].reg = adder.B_reg
                /\ g.qubits[1].idx < adder.B_reg.size
                /\ g.qubits[2].reg = adder.A_reg
                /\ g.qubits[2].idx < adder.A_reg.size
           /\ g.name \in {"QFT", "IQFT"} =>
                g.qubits = RegQubits(IF adder # None THEN adder.A_reg ELSE mult.Y_reg)
           /\ g.name = "c_add" =>
                /\ mult # None
                /\ Len(g.qubits) = 1 + mult.Y_reg.size + mult.M_reg.size
                /\ \E i \in 0..(mult.N_reg.size - 1) :
                     g.qubits = <<Qubit(mult.N_reg, i)>> \o RegQubits(mult.Y_reg)
                                  \o RegQubits(mult.M_reg)

\* C11 witness: an adder over a 3-qubit target and a 2-qubit operand was
\* built, and its circuit holds the phase gate from the last operand qubit
\* B[1] to the last target qubit A[2].
C11_Witness ==
    /\ AdderBuilt
    /\ adder.A_reg.size = 3 /\ adder.B_reg.size = 2
    /\ \E n \in DOMAIN AdderCircuit.data :
         /\ AdderCircuit.data[n].name = "cp"
         /\ AdderCircuit.data[n].qubits =
              <<Qubit(adder.B_reg, 1), Qubit(adder.A_reg, 2)>>

====
